---- MODULE Spec2Model ----
(***************************************************************************)
(* Terminal tic-tac-toe against a minimax AI (src/src/main.rs).            *)
(*                                                                         *)
(* Board cells are indexed 0..8 row-major, as in the source.  An           *)
(* Option<Player> cell is "X", "O" or "None"; Option<Winner> is "None",    *)
(* "Draw", "Player(X)" or "Player(O)"; Option<Coordinate> is the empty     *)
(* sequence (None) or a one-element sequence holding the coordinate.      *)
(***************************************************************************)
EXTENDS Integers, Sequences, FiniteSets, TLC

VARIABLES
    game,         \* the Board of main
    picked_side,  \* the human's side, "None" before pick_side
    pc,           \* position of main: "pick_side", "turn", "input", "bot", "done", "exit", "panicked"
    result,       \* what the last get_and_play_user_move call was given and returned
    parsed,       \* what the last parse_coordinates call was given and returned
    found,        \* what the last ai_best_move call was given and returned
    unpruned,     \* the same search with the seen_states test removed
    undone,       \* the last play_move / undo_move pair
    states,       \* what the last generate_all_equivalent_states call returned
    turns         \* the number of completed passes of main's loop body

vars == <<game, picked_side, pc, result, parsed, found, unpruned, undone, states, turns>>

----------------------------------------------------------------------------
(* Bounds of the model *)

\* largest number the human types as a row or column
MaxNum == 4

----------------------------------------------------------------------------
(* Primitive types *)

I32_MIN == -2147483647 - 1

I32_MAX == 2147483647

\* stand-in for usize::MAX; only "greater than 2" matters to from_usize
USIZE_MAX == 2147483647

Players == {"X", "O"}

Indexes == 0..2

Coordinates == [row : Indexes, col : Indexes]

Opponent(p) == IF p = "X" THEN "O" ELSE "X"

WinnerPlayer(p) == IF p = "X" THEN "Player(X)" ELSE "Player(O)"

CellIndex(coord) == coord.row * 3 + coord.col

Max2(a, b) == IF a >= b THEN a ELSE b

\* mutant of Min2: the greater of the two
Min2_greater(a, b) == IF a >= b THEN a ELSE b

Min2(a, b) == IF a <= b THEN a ELSE b

----------------------------------------------------------------------------
(* impl Board *)

\* mutant of BoardNew: X is given the first move
BoardNew_x_first ==
    [cells |-> [i \in 0..8 |-> "None"], turn |-> "X", winner |-> "None", highlight |-> <<>>]

BoardNew ==
    [cells |-> [i \in 0..8 |-> "None"], turn |-> "O", winner |-> "None", highlight |-> <<>>]

\* mutant of highlight: the field is not assigned
highlight_unset(board, cell) == board

highlight(board, cell) == [board EXCEPT !.highlight = <<cell>>]

play_move(board, pl_move) ==
    [board EXCEPT !.cells[CellIndex(pl_move)] = board.turn]

\* mutant of is_full: any() in place of all()
is_full_any(board) == \E i \in 0..8 : board.cells[i] # "None"

is_full(board) == \A i \in 0..8 : board.cells[i] # "None"

\* mutant of undo_move: the winner field is not reset
undo_move_keeps_winner(board, coord) ==
    [board EXCEPT !.cells[CellIndex(coord)] = "None"]

\* mutant of undo_move: row and column swapped in the index
undo_move_transposed(board, coord) ==
    [board EXCEPT !.cells[coord.col * 3 + coord.row] = "None", !.winner = "None"]

undo_move(board, coord) ==
    [board EXCEPT !.cells[CellIndex(coord)] = "None", !.winner = "None"]

\* the test of lines 154-155 on the pattern [a, b, c]
PatternMatches(cells, a, b, c) ==
    cells[a] # "None" /\ cells[a] = cells[b] /\ cells[b] = cells[c]

\* the for loop over WINNING_PATTERNS, in the order of the table (rows,
\* columns, diagonals): the marker of the first pattern that matches
FirstMatch(cells) ==
    IF PatternMatches(cells, 0, 1, 2) THEN cells[0]
    ELSE IF PatternMatches(cells, 3, 4, 5) THEN cells[3]
    ELSE IF PatternMatches(cells, 6, 7, 8) THEN cells[6]
    ELSE IF PatternMatches(cells, 0, 3, 6) THEN cells[0]
    ELSE IF PatternMatches(cells, 1, 4, 7) THEN cells[1]
    ELSE IF PatternMatches(cells, 2, 5, 8) THEN cells[2]
    ELSE IF PatternMatches(cells, 0, 4, 8) THEN cells[0]
    ELSE IF PatternMatches(cells, 2, 4, 6) THEN cells[2]
    ELSE "None"

check_if_game_over(board) ==
    LET player == FirstMatch(board.cells) IN
    IF player # "None"
    THEN [board EXCEPT !.winner = WinnerPlayer(player)]
    ELSE IF is_full(board)
         THEN [board EXCEPT !.winner = "Draw"]
         ELSE [board EXCEPT !.winner = "None"]

\* mutant of get_cell: row and column swapped in the index
get_cell_transposed(board, coord) == board.cells[coord.col * 3 + coord.row]

get_cell(board, coord) == board.cells[CellIndex(coord)]

\* mutant of rotate_90: rows and columns swapped, no row reversed
rotate_90_transposed(board) ==
    LET src == <<0, 3, 6, 1, 4, 7, 2, 5, 8>> IN [i \in 0..8 |-> board[src[i + 1]]]

rotate_90(board) ==
    LET src == <<6, 3, 0, 7, 4, 1, 8, 5, 2>> IN [i \in 0..8 |-> board[src[i + 1]]]

reflect(board) ==
    LET src == <<2, 1, 0, 5, 4, 3, 8, 7, 6>> IN [i \in 0..8 |-> board[src[i + 1]]]

\* mutant of generate_all_equivalent_states: current starts as the empty
\* array instead of self.cells
generate_all_equivalent_states_blank(board) ==
    LET blank == [i \in 0..8 |-> "None"]
        a1 == rotate_90(blank)
        a2 == rotate_90(a1)
        a3 == rotate_90(a2)
        a4 == rotate_90(a3)
        b0 == reflect(a4)
        b1 == rotate_90(b0)
        b2 == rotate_90(b1)
        b3 == rotate_90(b2)
        b4 == rotate_90(b3)
    IN <<a1, a2, a3, a4, b1, b2, b3, b4>>

\* the Vec pushed by the two nested loops, in push order
generate_all_equivalent_states(board) ==
    LET a1 == rotate_90(board.cells)
        a2 == rotate_90(a1)
        a3 == rotate_90(a2)
        a4 == rotate_90(a3)
        b0 == reflect(a4)
        b1 == rotate_90(b0)
        b2 == rotate_90(b1)
        b3 == rotate_90(b2)
        b4 == rotate_90(b3)
    IN <<a1, a2, a3, a4, b1, b2, b3, b4>>

----------------------------------------------------------------------------
(* The search.  The board is threaded through the recursion, as the single *)
(* mutable board of the source is.  Four observations are carried along:   *)
(*   intact  after every child visit made so far the board equalled its    *)
(*           value before that visit;                                       *)
(*   fresh   at every base-case test made so far board.winner equalled     *)
(*           what check_if_game_over computes from the cells;               *)
(*   pruned  no child has been visited at a node where an earlier child    *)
(*           visit had left beta <= alpha;                                  *)
(*   legal   every play_move made so far changed one cell only, and that   *)
(*           cell was empty.                                                *)
(* The locals of a loop (board, alpha, beta, best_score, counter, ...) and *)
(* the observations make one record s, which each pass of the loop body    *)
(* maps to the next.                                                        *)

RECURSIVE min_max(_, _, _, _, _, _, _)

\* lines 400-414, what the loop body does once the recursive call has
\* returned r for the board child it was given (played is the board after
\* play_move): undo, restore the turn, update best_score, alpha and beta,
\* test for break.  s is the state of the loop before the visit; broke is
\* the row whose column loop a break has left, 3 when this visit leaves
\* none.  best_score leaves its initial value at the first child visit, so
\* "beta <= alpha and best_score moved" says an earlier visit of this node
\* cut off.
min_max_visit(s, maximizing, idx, played, child, r) ==
    [counter |-> r.counter,
     board |-> [undo_move(r.board, [row |-> idx \div 3, col |-> idx % 3]) EXCEPT !.turn = played.turn],
     alpha |-> IF maximizing THEN Max2(s.alpha, r.score) ELSE s.alpha,
     beta |-> IF maximizing THEN s.beta ELSE Min2(s.beta, r.score),
     best_score |-> IF maximizing THEN Max2(s.best_score, r.score) ELSE Min2(s.best_score, r.score),
     broke |-> IF (IF maximizing THEN s.beta ELSE Min2(s.beta, r.score))
                   <= (IF maximizing THEN Max2(s.alpha, r.score) ELSE s.alpha)
               THEN idx \div 3 ELSE 3,
     intact |-> /\ s.intact
                /\ r.intact
                /\ r.board = child
                /\ [undo_move(r.board, [row |-> idx \div 3, col |-> idx % 3]) EXCEPT !.turn = played.turn] = s.board,
     fresh |-> s.fresh /\ r.fresh,
     pruned |-> /\ s.pruned
                /\ r.pruned
                /\ ~(s.beta <= s.alpha /\ s.best_score # (IF maximizing THEN I32_MIN ELSE I32_MAX)),
     legal |-> /\ s.legal
               /\ r.legal
               /\ [played.cells EXCEPT ![idx] = "None"] = s.board.cells]

\* lines 384-402, one pass of the loop body at idx = row * 3 + col.  A pass
\* is not made once break has left the column loop of this row; it
\* continues on a non-empty cell (get_cell(board, coord) written on the
\* index); else it plays, switches the turn, checks and recurses.  break
\* leaves the column loop only: the passes of the next row are made.
min_max_cell(s, maximizing, ai_player, depth, idx) ==
    IF s.broke = idx \div 3 \/ s.board.cells[idx] # "None"
    THEN s
    ELSE LET played == play_move(s.board, [row |-> idx \div 3, col |-> idx % 3])
             child == check_if_game_over([played EXCEPT !.turn = Opponent(played.turn)])
         IN min_max_visit(s, maximizing, idx, played, child,
                          min_max(child, ~maximizing, ai_player, depth + 1, s.alpha, s.beta, s.counter))

\* lines 382-418, the two nested for loops: the nine passes in row-major
\* order, each from the state the one before left
min_max_loop(board, maximizing, ai_player, depth, alpha, beta, counter, fresh) ==
    LET start == [counter |-> counter, board |-> board, alpha |-> alpha, beta |-> beta,
                  best_score |-> IF maximizing THEN I32_MIN ELSE I32_MAX, broke |-> 3,
                  intact |-> TRUE, fresh |-> fresh, pruned |-> TRUE, legal |-> TRUE]
        c0 == min_max_cell(start, maximizing, ai_player, depth, 0)
        c1 == min_max_cell(c0, maximizing, ai_player, depth, 1)
        c2 == min_max_cell(c1, maximizing, ai_player, depth, 2)
        c3 == min_max_cell(c2, maximizing, ai_player, depth, 3)
        c4 == min_max_cell(c3, maximizing, ai_player, depth, 4)
        c5 == min_max_cell(c4, maximizing, ai_player, depth, 5)
        c6 == min_max_cell(c5, maximizing, ai_player, depth, 6)
        c7 == min_max_cell(c6, maximizing, ai_player, depth, 7)
        c8 == min_max_cell(c7, maximizing, ai_player, depth, 8)
    IN [intact |-> /\ c0.intact
                   /\ c1.intact
                   /\ c2.intact
                   /\ c3.intact
                   /\ c4.intact
                   /\ c5.intact
                   /\ c6.intact
                   /\ c7.intact
                   /\ c8.intact,
        score |-> c8.best_score, board |-> c8.board, counter |-> c8.counter,
        fresh |-> c8.fresh, pruned |-> c8.pruned, legal |-> c8.legal]

\* mutant of leaf_score: the two depth-adjusted scores swapped
leaf_score_swapped(winner, ai_player, depth) ==
    IF winner = "Draw" THEN 0
    ELSE IF winner = WinnerPlayer(ai_player) THEN depth - 10
    ELSE 10 - depth

\* mutant of leaf_score: no depth adjustment
leaf_score_flat(winner, ai_player, depth) ==
    IF winner = "Draw" THEN 0
    ELSE IF winner = WinnerPlayer(ai_player) THEN 10
    ELSE -10

\* lines 373-380: the score of a decided board
leaf_score(winner, ai_player, depth) ==
    IF winner = "Draw" THEN 0
    ELSE IF winner = WinnerPlayer(ai_player) THEN 10 - depth
    ELSE depth - 10

min_max(board, maximizing, ai_player, depth, alpha, beta, counter) ==
    LET fresh == board.winner = check_if_game_over(board).winner IN
    IF board.winner # "None"
    THEN [score |-> leaf_score(board.winner, ai_player, depth),
          board |-> board, counter |-> counter + 1, intact |-> TRUE,
          fresh |-> fresh, pruned |-> TRUE, legal |-> TRUE]
    ELSE min_max_loop(board, maximizing, ai_player, depth, alpha, beta, counter + 1, fresh)

\* mutant of better_score: >= in place of >
better_score_or_equal(score, best_score) == score >= best_score

\* line 356: if score > best_score
better_score(score, best_score) == score > best_score

\* symmetry_skip = TRUE is the source; FALSE is the same loop with the
\* seen_states test removed (every empty cell scored).  scored is the set
\* of candidates min_max was called for, scores their <<coordinate, score>>
\* pairs.

\* lines 353-363, what the loop body does with a candidate once its board
\* child has been scored, or skipped (visit = FALSE): keep the better move,
\* undo, restore the turn.  s is the state of the loop before the candidate.
ai_best_move_visit(s, idx, played, child, state, visit, r) ==
    [counter |-> r.counter,
     board |-> [undo_move(r.board, [row |-> idx \div 3, col |-> idx % 3]) EXCEPT !.turn = played.turn],
     best_move |-> IF visit /\ better_score(r.score, s.best_score)
                   THEN [row |-> idx \div 3, col |-> idx % 3] ELSE s.best_move,
     best_score |-> IF visit /\ better_score(r.score, s.best_score) THEN r.score ELSE s.best_score,
     seen_states |-> s.seen_states \cup {state},
     scored |-> IF visit THEN s.scored \cup {[row |-> idx \div 3, col |-> idx % 3]} ELSE s.scored,
     scores |-> IF visit THEN s.scores \cup {<<[row |-> idx \div 3, col |-> idx % 3], r.score>>}
                ELSE s.scores,
     intact |-> /\ s.intact
                /\ r.intact
                /\ r.board = child
                /\ [undo_move(r.board, [row |-> idx \div 3, col |-> idx % 3]) EXCEPT !.turn = played.turn] = s.board,
     fresh |-> s.fresh /\ r.fresh,
     pruned |-> s.pruned /\ r.pruned,
     legal |-> /\ s.legal
               /\ r.legal
               /\ [played.cells EXCEPT ![idx] = "None"] = s.board.cells]

\* the call of min_max at line 354, made when seen_states.insert(state)
\* returns true; a skipped candidate leaves the board and the counter alone
ai_best_move_score(s, ai_character, child, visit) ==
    IF visit
    THEN min_max(child, FALSE, ai_character, 0, I32_MIN, I32_MAX, s.counter)
    ELSE [score |-> 0, board |-> child, counter |-> s.counter, intact |-> TRUE,
          fresh |-> TRUE, pruned |-> TRUE, legal |-> TRUE]

\* lines 341-363, the loop body at an empty cell, idx = row * 3 + col
ai_best_move_cell(s, ai_character, symmetry_skip, idx) ==
    LET played == play_move(s.board, [row |-> idx \div 3, col |-> idx % 3])
        child == check_if_game_over([played EXCEPT !.turn = Opponent(played.turn)])
        state == generate_all_equivalent_states(child)
        visit == state \notin s.seen_states \/ ~symmetry_skip
    IN ai_best_move_visit(s, idx, played, child, state, visit,
                          ai_best_move_score(s, ai_character, child, visit))

RECURSIVE ai_best_move_loop(_, _, _, _)

\* lines 336-365, the two nested for loops: idx walks them in row-major
\* order, a non-empty cell is skipped
ai_best_move_loop(s, ai_character, symmetry_skip, idx) ==
    IF idx > 8
    THEN s
    ELSE IF get_cell(s.board, [row |-> idx \div 3, col |-> idx % 3]) # "None"
         THEN ai_best_move_loop(s, ai_character, symmetry_skip, idx + 1)
         ELSE ai_best_move_loop(ai_best_move_cell(s, ai_character, symmetry_skip, idx),
                                ai_character, symmetry_skip, idx + 1)

\* lines 330-333, the locals before the loops
ai_best_move_start(board) ==
    [counter |-> 0, board |-> board, best_move |-> [row |-> 0, col |-> 0],
     best_score |-> I32_MIN, seen_states |-> {}, scored |-> {}, scores |-> {},
     intact |-> TRUE, fresh |-> TRUE, pruned |-> TRUE, legal |-> TRUE]

\* line 367: what ai_best_move returns once the loops are through (the
\* source returns best_move and counter), s the state the last pass left
ai_best_move_result(s) ==
    [best_move |-> s.best_move, counter |-> s.counter, best_score |-> s.best_score,
     board |-> s.board, scored |-> s.scored, scores |-> s.scores, intact |-> s.intact,
     fresh |-> s.fresh, pruned |-> s.pruned, legal |-> s.legal]

ai_best_move(board, ai_character) ==
    ai_best_move_result(ai_best_move_loop(ai_best_move_start(board), ai_character, TRUE, 0))

ai_best_move_unpruned(board, ai_character) ==
    ai_best_move_result(ai_best_move_loop(ai_best_move_start(board), ai_character, FALSE, 0))

----------------------------------------------------------------------------
(* Console input.  A line is the sequence of parts that trim() and         *)
(* split('-') give; the empty sequence stands for a failed read_line.      *)

ReadFailed == <<>>

Numerals == {ToString(n) : n \in 0..MaxNum}

Tokens == Numerals \cup {"abc"}

Lines ==
    {ReadFailed, <<"ok">>, <<"abc">>, <<"2">>, <<"1", "2", "3">>}
        \cup {<<a, b>> : a \in Tokens, b \in Tokens}

SideLines == {ReadFailed, <<"x">>, <<"o">>, <<"X">>, <<"O">>, <<"abc">>}

\* str::parse::<usize>: Some(n) for a numeral, None otherwise
parse_usize(text) ==
    IF text \in Numerals THEN <<CHOOSE n \in 0..MaxNum : ToString(n) = text>> ELSE <<>>

to_lowercase(text) == IF text = "X" THEN "x" ELSE IF text = "O" THEN "o" ELSE text

\* a - b on usize in a build without overflow checks
wrapping_sub(a, b) == IF a >= b THEN a - b ELSE USIZE_MAX - (b - a) + 1

from_usize(value) == IF value \in 0..2 THEN <<value>> ELSE <<>>

Err(message) == [tag |-> "Err", coord |-> <<>>, message |-> message]

\* overflow_checks: whether the build panics on integer overflow (debug
\* profile) or wraps (release profile)
parse_coordinates(input, overflow_checks) ==
    IF Len(input) # 2 THEN Err("Input must be in the format 'row-col'")
    ELSE LET row == parse_usize(input[1])
             col == parse_usize(input[2])
         IN IF row = <<>> THEN Err("Invalid row index")
            ELSE IF col = <<>> THEN Err("Invalid column index")
            ELSE IF row[1] < 1 /\ overflow_checks
            THEN [tag |-> "Panic", coord |-> <<>>, message |-> "attempt to subtract with overflow"]
            ELSE LET row_index == from_usize(wrapping_sub(row[1], 1)) IN
                 IF row_index = <<>> THEN Err("Row index out of range")
                 ELSE IF col[1] < 1 /\ overflow_checks
                 THEN [tag |-> "Panic", coord |-> <<>>, message |-> "attempt to subtract with overflow"]
                 ELSE LET col_index == from_usize(wrapping_sub(col[1], 1)) IN
                      IF col_index = <<>> THEN Err("Column index out of range")
                      ELSE [tag |-> "Ok", coord |-> <<[row |-> row_index[1], col |-> col_index[1]]>>,
                            message |-> ""]

\* value is "Ok(true)", "Ok(false)", "Err" or "Panic"; parsed is the
\* parse_coordinates result when the call got that far
get_and_play_user_move(board, input, overflow_checks) ==
    IF input = ReadFailed
    THEN [value |-> "Err", message |-> "Failed to read line", board |-> board, parsed |-> <<>>]
    ELSE IF input = <<"ok">>
    THEN IF board.highlight # <<>>
         THEN [value |-> "Ok(true)", message |-> "",
               board |-> [play_move(board, board.highlight[1]) EXCEPT !.highlight = <<>>],
               parsed |-> <<>>]
         ELSE [value |-> "Err", message |-> "You must select a cell to play something in it.",
               board |-> board, parsed |-> <<>>]
    ELSE LET p == parse_coordinates(input, overflow_checks) IN
         IF p.tag = "Panic"
         THEN [value |-> "Panic", message |-> p.message, board |-> board, parsed |-> <<p>>]
         ELSE IF p.tag = "Ok"
         THEN IF get_cell(board, p.coord[1]) = "None"
              THEN [value |-> "Ok(false)", message |-> "",
                    board |-> highlight(board, p.coord[1]), parsed |-> <<p>>]
              ELSE [value |-> "Err", message |-> "That cell is already taken.",
                    board |-> board, parsed |-> <<p>>]
         ELSE [value |-> "Err",
               message |-> "Invalid input. Please enter coordinates in the format 'row-col' (e.g., '1-2').",
               board |-> board, parsed |-> <<p>>]

\* lines 422-425: r is what ai_best_move returned; the move is played on
\* the board the search left.  The value is the board after the move, the
\* move, and the search that chose it.
play_bot_move_played(r) ==
    [board |-> play_move(r.board, r.best_move), best_move |-> r.best_move, search |-> r]

\* lines 421-426
play_bot_move(board, player) == play_bot_move_played(ai_best_move(board, player))

pick_side(input) ==
    IF input = ReadFailed THEN <<>>
    ELSE IF Len(input) = 1 /\ to_lowercase(input[1]) = "x" THEN <<"X">>
    ELSE IF Len(input) = 1 /\ to_lowercase(input[1]) = "o" THEN <<"O">>
    ELSE <<>>

\* mutant of EndTurn: check_if_game_over is not called
EndTurn_unchecked(board) == [board EXCEPT !.turn = Opponent(board.turn)]

\* lines 475-482 of main: switch turns, then check if the game is over
EndTurn(board) == check_if_game_over([board EXCEPT !.turn = Opponent(board.turn)])

----------------------------------------------------------------------------
(* main *)

Init ==
    /\ game = BoardNew
    /\ picked_side = "None"
    /\ pc = "pick_side"
    /\ result = <<>>
    /\ parsed = <<>>
    /\ found = <<>>
    /\ unpruned = <<>>
    /\ undone = <<>>
    /\ states = <<>>
    /\ turns = 0

PickSide(input) ==
    /\ pc = "pick_side"
    /\ LET side == pick_side(input) IN
       IF side # <<>>
       THEN picked_side' = side[1] /\ pc' = "turn"
       ELSE picked_side' = picked_side /\ pc' = "exit"
    /\ UNCHANGED <<game, result, parsed, found, unpruned, undone, states, turns>>

\* mutant of BeginTurn: the while condition tests is_full only
BeginTurn_ignores_winner ==
    /\ pc = "turn"
    /\ pc' = IF ~is_full(game)
             THEN IF game.turn = picked_side THEN "input" ELSE "bot"
             ELSE "done"
    /\ UNCHANGED <<game, picked_side, result, parsed, found, unpruned, undone, states, turns>>

\* the while condition and the branch on whose turn it is
BeginTurn ==
    /\ pc = "turn"
    /\ pc' = IF game.winner = "None" /\ ~is_full(game)
             THEN IF game.turn = picked_side THEN "input" ELSE "bot"
             ELSE "done"
    /\ UNCHANGED <<game, picked_side, result, parsed, found, unpruned, undone, states, turns>>

\* one pass of the human's inner loop: one call of get_and_play_user_move
UserInput(input, overflow_checks) ==
    /\ pc = "input"
    /\ LET r == get_and_play_user_move(game, input, overflow_checks) IN
       /\ result' = <<[input |-> input, value |-> r.value, message |-> r.message]>>
       /\ parsed' = IF r.parsed = <<>> THEN <<>>
                    ELSE <<[input |-> input, tag |-> r.parsed[1].tag, coord |-> r.parsed[1].coord,
                            message |-> r.parsed[1].message]>>
       /\ IF r.value = "Panic" THEN game' = r.board /\ pc' = "panicked"
          ELSE IF r.value = "Ok(true)" THEN game' = EndTurn(r.board) /\ pc' = "turn"
          ELSE game' = r.board /\ pc' = "input"
       /\ turns' = IF r.value = "Ok(true)" THEN turns + 1 ELSE turns
    /\ UNCHANGED <<picked_side, found, unpruned, undone, states>>

BotTurn ==
    /\ pc = "bot"
    /\ LET ai == Opponent(picked_side)
           r == play_bot_move(game, ai)
       IN /\ found' = <<[before |-> game, ai |-> ai, search |-> r.search]>>
          /\ game' = EndTurn(r.board)
    /\ pc' = "turn"
    /\ turns' = turns + 1
    /\ UNCHANGED <<picked_side, result, parsed, unpruned, undone, states>>

Next ==
    \/ \E input \in SideLines : PickSide(input)
    \/ BeginTurn
    \/ \E input \in Lines, overflow_checks \in BOOLEAN : UserInput(input, overflow_checks)
    \/ BotTurn

Spec == Init /\ [][Next]_vars

\* the bot's turn is over.  A step of Spec from pc = "bot" to pc = "turn"
\* is a BotTurn step, and BotTurn has no guard but pc = "bot", so fairness
\* on this action is fairness on BotTurn; written on pc, its enabling
\* condition is decided without evaluating the search again.
BotReturns == pc = "bot" /\ pc' = "turn"

\* the steps of UserInput that select a first cell (a coordinate of an
\* empty cell is typed while nothing is highlighted) ...
HumanSelects ==
    /\ pc = "input"
    /\ game.highlight = <<>>
    /\ \E coord \in Coordinates :
          get_cell(game, coord) = "None" /\ game' = highlight(game, coord)

\* ... and the step that confirms the selected cell ("ok" is typed while a
\* cell is highlighted), which leaves the input loop for the next turn
HumanConfirms == pc = "input" /\ game.highlight # <<>> /\ pc' = "turn"

\* main is sequential code, so each of its steps is taken once it can be;
\* the human is assumed to select a cell and to confirm the selected cell
\* eventually on each of their turns, whatever else is typed in between
FairSpec ==
    /\ Spec
    /\ WF_vars(\E input \in SideLines : PickSide(input))
    /\ WF_vars(BeginTurn)
    /\ WF_pc(BotReturns)
    /\ WF_game(HumanSelects)
    /\ WF_pc(HumanConfirms)

----------------------------------------------------------------------------
(* Alternating play: every board two players reach from the empty board by *)
(* legal moves, each turn ended as main ends it, with ai_best_move and the *)
(* play_move / undo_move pair applied to it.                               *)

AltPlay(coord) ==
    /\ game.winner = "None"
    /\ get_cell(game, coord) = "None"
    /\ game' = EndTurn(play_move(game, coord))
    /\ found' = <<>>
    /\ unpruned' = <<>>
    /\ undone' = <<>>
    /\ UNCHANGED <<picked_side, pc, result, parsed, states, turns>>

AltSearch ==
    /\ game.winner = "None"
    /\ found = <<>>
    /\ undone = <<>>
    /\ found' = <<[before |-> game, ai |-> game.turn, search |-> ai_best_move(game, game.turn)]>>
    /\ unpruned' = <<ai_best_move_unpruned(game, game.turn)>>
    /\ UNCHANGED <<game, picked_side, pc, result, parsed, undone, states, turns>>

AltPlayUndo(coord) ==
    /\ found = <<>>
    /\ undone = <<>>
    /\ get_cell(game, coord) = "None"
    /\ undone' = <<[coord |-> coord, before |-> game,
                    after |-> undo_move(play_move(game, coord), coord)]>>
    /\ UNCHANGED <<game, picked_side, pc, result, parsed, found, unpruned, states, turns>>

AltNext ==
    \/ \E coord \in Coordinates : AltPlay(coord)
    \/ AltSearch
    \/ \E coord \in Coordinates : AltPlayUndo(coord)

AltSpec == Init /\ [][AltNext]_vars

----------------------------------------------------------------------------
(* The symmetry functions on their own: every array of nine cells, with    *)
(* rotate_90, reflect and generate_all_equivalent_states applied to it.     *)

CellArrays == [0..8 -> Players \cup {"None"}]

SymInit ==
    /\ game \in {[BoardNew EXCEPT !.cells = cells] : cells \in CellArrays}
    /\ picked_side = "None"
    /\ pc = "pick_side"
    /\ result = <<>>
    /\ parsed = <<>>
    /\ found = <<>>
    /\ unpruned = <<>>
    /\ undone = <<>>
    /\ states = <<>>
    /\ turns = 0

SymGenerate ==
    /\ states = <<>>
    /\ states' = <<generate_all_equivalent_states(game)>>
    /\ UNCHANGED <<game, picked_side, pc, result, parsed, found, unpruned, undone, turns>>

SymRotate ==
    /\ game' = [game EXCEPT !.cells = rotate_90(game.cells)]
    /\ states' = <<>>
    /\ UNCHANGED <<picked_side, pc, result, parsed, found, unpruned, undone, turns>>

SymReflect ==
    /\ game' = [game EXCEPT !.cells = reflect(game.cells)]
    /\ states' = <<>>
    /\ UNCHANGED <<picked_side, pc, result, parsed, found, unpruned, undone, turns>>

SymNext == SymGenerate \/ SymRotate \/ SymReflect

SymSpec == SymInit /\ [][SymNext]_vars

----------------------------------------------------------------------------
(* Vocabulary of the properties: the winning triples as geometry, not as   *)
(* the table check_if_game_over scans.                                     *)

Triples ==
    {{3 * r, 3 * r + 1, 3 * r + 2} : r \in 0..2}
        \cup {{c, c + 3, c + 6} : c \in 0..2}
        \cup {{0, 4, 8}, {2, 4, 6}}

HoldsTriple(cells, p) == \E t \in Triples : \A i \in t : cells[i] = p

\* the empty cells that complete a triple for p
WinningCells(cells, p) ==
    {i \in 0..8 : /\ cells[i] = "None"
                  /\ \E t \in Triples : i \in t /\ \A j \in t \ {i} : cells[j] = p}

Count(cells, p) == Cardinality({i \in 0..8 : cells[i] = p})

SameBoard(a, b) == a.cells = b.cells /\ a.turn = b.turn /\ a.winner = b.winner

NumeralValue(text) == CHOOSE n \in 0..MaxNum : ToString(n) = text

----------------------------------------------------------------------------
(* Properties *)

\* C1: in a game against the AI the human's marker never wins, whichever
\* side the human picked: the winner field is never the human and no
\* winning triple is filled with the human's marker.
C1_HumanNeverWins ==
    picked_side \in Players =>
        /\ game.winner # WinnerPlayer(picked_side)
        /\ ~HoldsTriple(game.cells, picked_side)

\* C1 witness: a game the AI played as X (second) and won
C1_Witness ==
    pc = "done" /\ picked_side = "O" /\ game.winner = "Player(X)" /\ found # <<>>

\* C2: when the side to move has an empty cell that completes one of its
\* triples, the coordinate ai_best_move returns is empty and playing it
\* fills a triple with that side's marker.
C2_TakesTheWin ==
    found # <<>> =>
        LET f == found[1]
            move == CellIndex(f.search.best_move)
        IN WinningCells(f.before.cells, f.ai) # {} =>
               /\ f.before.cells[move] = "None"
               /\ HoldsTriple([f.before.cells EXCEPT ![move] = f.ai], f.ai)

\* C2 witness: a search on a board where the mover can win at once
C2_Witness ==
    /\ found # <<>>
    /\ WinningCells(found[1].before.cells, found[1].ai) # {}
    /\ found[1].search.best_score = 10

\* C3 as stated: with no immediate win for the mover and some opponent
\* triple holding two markers and an empty third cell, ai_best_move returns
\* the empty cell of such a triple.
C3_BlocksAnyThreat ==
    found # <<>> =>
        LET f == found[1]
            theirs == WinningCells(f.before.cells, Opponent(f.ai))
        IN (WinningCells(f.before.cells, f.ai) = {} /\ theirs # {}) =>
               CellIndex(f.search.best_move) \in theirs

\* C3 amended: with no immediate win for the mover and exactly one empty
\* cell that completes an opponent triple, ai_best_move returns that cell.
C3_BlocksSingleThreat ==
    found # <<>> =>
        LET f == found[1]
            theirs == WinningCells(f.before.cells, Opponent(f.ai))
        IN (WinningCells(f.before.cells, f.ai) = {} /\ Cardinality(theirs) = 1) =>
               CellIndex(f.search.best_move) \in theirs

\* C3 witness: a search on a board with a single threat and no win at hand
C3_Witness ==
    /\ found # <<>>
    /\ WinningCells(found[1].before.cells, found[1].ai) = {}
    /\ Cardinality(WinningCells(found[1].before.cells, Opponent(found[1].ai))) = 1
    /\ CellIndex(found[1].search.best_move) # 0

\* C4: on every board of alternating play the winner field is Player(p)
\* exactly when a triple is filled with p, and otherwise Draw exactly when
\* no cell is empty and None exactly when some cell is empty.
C4_WinnerMatchesTriples ==
    /\ \A p \in Players : game.winner = WinnerPlayer(p) <=> HoldsTriple(game.cells, p)
    /\ (\A p \in Players : ~HoldsTriple(game.cells, p)) =>
           /\ game.winner = "Draw" <=> (\A i \in 0..8 : game.cells[i] # "None")
           /\ game.winner = "None" <=> (\E i \in 0..8 : game.cells[i] = "None")

\* C4 witness: a win completed by the ninth marker (full, yet not a draw)
C4_Witness ==
    /\ game.winner = "Player(O)"
    /\ \A i \in 0..8 : game.cells[i] # "None"

\* C5 as stated: on every board, play_move then undo_move on an empty
\* coordinate leaves cells, turn and winner as they were.
C5_PlayUndoRestoresAll ==
    undone # <<>> => SameBoard(undone[1].after, undone[1].before)

\* C5 amended: on every board whose winner field is None, play_move then
\* undo_move on an empty coordinate leaves cells, turn and winner as they
\* were.
C5_PlayUndoRestoresUndecided ==
    (undone # <<>> /\ undone[1].before.winner = "None") =>
        SameBoard(undone[1].after, undone[1].before)

\* C5 witness: the pair applied to an undecided board that holds markers
C5_Witness ==
    /\ undone # <<>>
    /\ undone[1].before.winner = "None"
    /\ Count(undone[1].before.cells, "None") = 3
    /\ undone[1].coord = [row |-> 2, col |-> 1]

\* C6: every ai_best_move call of a game returns with the board (cells,
\* turn, winner, highlight) as it was at the call, and so does every
\* min_max call and every child visit, after its undo and turn restore.
C6_SearchLeavesBoard ==
    found # <<>> =>
        /\ found[1].search.board = found[1].before
        /\ found[1].search.intact

\* C6 witness: a search of a game that visited many positions
C6_Witness ==
    /\ pc = "turn"
    /\ found # <<>>
    /\ found[1].search.counter > 1000
    /\ found[1].search.board = found[1].before

\* C7: the score of the coordinate ai_best_move returns equals the score of
\* the coordinate the same loop returns when it scores every empty cell.
C7_SymmetrySkipKeepsScore ==
    found # <<>> => found[1].search.best_score = unpruned[1].best_score

\* C7 witness: both searches made on the empty board, whose nine candidate
\* boards fall into three symmetry classes
C7_Witness ==
    /\ found # <<>>
    /\ unpruned # <<>>
    /\ found[1].before = BoardNew
    /\ Cardinality(unpruned[1].scored) = 9

\* the inputs C8 names: 'ok' with no cell selected, a coordinate naming an
\* occupied cell, text that is not a coordinate 'row-col' with row, col in 1..3
IsCoordinateText(input) ==
    /\ Len(input) = 2
    /\ input[1] \in Numerals /\ NumeralValue(input[1]) \in 1..3
    /\ input[2] \in Numerals /\ NumeralValue(input[2]) \in 1..3

IsRejectedInput(board, input) ==
    /\ input # ReadFailed
    /\ IF input = <<"ok">> THEN board.highlight = <<>>
       ELSE IF IsCoordinateText(input)
       THEN board.cells[(NumeralValue(input[1]) - 1) * 3 + NumeralValue(input[2]) - 1] # "None"
       ELSE TRUE

\* C8: every rejected input yields an error value, leaves the board as it
\* was, and leaves main in the human's input loop.
C8_RejectedInputReprompts ==
    [][(pc = "input" /\ IsRejectedInput(game, result'[1].input)) =>
          /\ result'[1].value = "Err"
          /\ game' = game
          /\ pc' = "input"]_vars

\* C9: for 'row-col' with unsigned numbers, parse_coordinates returns the
\* coordinate (row-1, col-1) when both are in 1..3 and an error otherwise;
\* it never aborts.
C9_OutOfRangeIsAnError ==
    (parsed # <<>> /\ Len(parsed[1].input) = 2
        /\ parsed[1].input[1] \in Numerals /\ parsed[1].input[2] \in Numerals) =>
        LET row == NumeralValue(parsed[1].input[1])
            col == NumeralValue(parsed[1].input[2])
        IN IF row \in 1..3 /\ col \in 1..3
           THEN /\ parsed[1].tag = "Ok"
                /\ parsed[1].coord = <<[row |-> row - 1, col |-> col - 1]>>
           ELSE parsed[1].tag = "Err"

\* the O and X counts of C10
CountsAlternate ==
    Count(game.cells, "O") - Count(game.cells, "X") \in {0, 1}

\* a completed turn changes exactly one cell, from empty to the marker of
\* the player whose turn it was
TurnAddsOneMarker ==
    (pc \in {"input", "bot"} /\ pc' = "turn") =>
        \E i \in 0..8 :
            /\ game.cells[i] = "None"
            /\ game'.cells = [game.cells EXCEPT ![i] = game.turn]

\* C10: in every state of a game the number of O cells minus the number of
\* X cells is 0 or 1, and each completed turn adds exactly one marker of
\* the player whose turn it was.
C10_MarkersAlternate ==
    [](CountsAlternate) /\ [][TurnAddsOneMarker]_vars

\* C10 witness: between turns, after the fifth marker (three O, two X)
C10_Witness ==
    /\ pc = "turn"
    /\ Count(game.cells, "O") = 3
    /\ Count(game.cells, "X") = 2

\* C11: board.winner is never stale when it is read: at the loop condition
\* of main, at the final result print, and at every base-case test of
\* min_max it equals what check_if_game_over computes from the cells.
C11_WinnerFreshWhenRead ==
    /\ pc \in {"turn", "done"} => game.winner = check_if_game_over(game).winner
    /\ found # <<>> => found[1].search.fresh

\* C11 witness: the final read of a game the bot won, after a last bot turn
\* whose search made more than ten base-case tests
C11_Witness ==
    /\ pc = "done"
    /\ game.winner = "Player(X)"
    /\ found # <<>>
    /\ found[1].search.counter > 10
    /\ found[1].search.fresh

\* the eight symmetries of the square, each as the map from a cell of the
\* image to the cell of the original it shows: identity, the three
\* rotations, the two axis mirrors and the two diagonal mirrors
SquareSymmetries ==
    LET at(r, c) == 3 * r + c IN
    { [i \in 0..8 |-> at(i \div 3, i % 3)],
      [i \in 0..8 |-> at(i % 3, 2 - (i \div 3))],
      [i \in 0..8 |-> at(2 - (i \div 3), 2 - (i % 3))],
      [i \in 0..8 |-> at(2 - (i % 3), i \div 3)],
      [i \in 0..8 |-> at(i \div 3, 2 - (i % 3))],
      [i \in 0..8 |-> at(2 - (i \div 3), i % 3)],
      [i \in 0..8 |-> at(i % 3, i \div 3)],
      [i \in 0..8 |-> at(2 - (i % 3), 2 - (i \div 3))] }

\* the images of a 9-cell array under the eight symmetries
Images(cells) == {[i \in 0..8 |-> cells[sym[i]]] : sym \in SquareSymmetries}

\* the cells after the side to move marks cell i
Marked(board, i) == [board.cells EXCEPT ![i] = board.turn]

\* candidate i gives a board that is a rotation or reflection of the board
\* an earlier candidate of the same call gives
SymmetryRedundant(board, i) ==
    /\ board.cells[i] = "None"
    /\ \E j \in 0..8 :
          /\ j < i
          /\ board.cells[j] = "None"
          /\ Marked(board, i) \in Images(Marked(board, j))

\* C12: ai_best_move does not score a candidate whose board is a rotation
\* or reflection of the board of an earlier candidate of the same call; on
\* the empty board it scores one corner, one edge and the centre only.
C12_SymmetricCandidatesSkipped ==
    found # <<>> =>
        \A i \in 0..8 :
            SymmetryRedundant(found[1].before, i) =>
                [row |-> i \div 3, col |-> i % 3] \notin found[1].search.scored

\* C13: once a child visit at a min_max node leaves beta <= alpha, no
\* further child of that node is visited, in a later column or a later row,
\* before the node returns.
C13_CutoffStopsTheNode ==
    found # <<>> => found[1].search.pruned

\* the greatest and the least member of a non-empty set of integers
SetMax(values) == CHOOSE v \in values : \A w \in values : w <= v

SetMin(values) == CHOOSE v \in values : \A w \in values : v <= w

\* unpruned depth-aware minimax: 10 - depth for a win of ai, depth - 10 for
\* a win of the opponent, 0 for a draw, the maximum over the children
\* where ai is to move and the minimum where the opponent is
RECURSIVE Minimax(_, _, _, _)
Minimax(cells, turn, ai, depth) ==
    IF HoldsTriple(cells, ai) THEN 10 - depth
    ELSE IF HoldsTriple(cells, Opponent(ai)) THEN depth - 10
    ELSE LET empty == {i \in 0..8 : cells[i] = "None"} IN
         IF empty = {} THEN 0
         ELSE LET values == {Minimax([cells EXCEPT ![i] = turn], Opponent(turn), ai, depth + 1) :
                                 i \in empty}
              IN IF turn = ai THEN SetMax(values) ELSE SetMin(values)

\* C14: the score min_max returns for a candidate of ai_best_move (full
\* window, depth 0, opponent to move) is the unpruned depth-aware minimax
\* value of the candidate's board, for every board of alternating play.
C14_PruningKeepsTheValue ==
    found # <<>> =>
        \A p \in found[1].search.scores :
            p[2] = Minimax(Marked(found[1].before, CellIndex(p[1])),
                           Opponent(found[1].before.turn), found[1].ai, 0)

\* C14 witness: a search in which a child was visited after a cutoff, with
\* every score an exact minimax value, one of them a forced win
C14_Witness ==
    /\ found # <<>>
    /\ ~found[1].search.pruned
    /\ \E p \in found[1].search.scores : p[2] > 0
    /\ \A p \in found[1].search.scores :
            p[2] = Minimax(Marked(found[1].before, CellIndex(p[1])),
                           Opponent(found[1].before.turn), found[1].ai, 0)

\* C15: on every undecided, non-full board the coordinate ai_best_move
\* returns is an empty cell, it was scored, its score is the greatest of
\* the scores, and no candidate before it in row-major order has that score.
C15_FirstOfTheBest ==
    found # <<>> =>
        LET search == found[1].search IN
        /\ found[1].before.cells[CellIndex(search.best_move)] = "None"
        /\ <<search.best_move, search.best_score>> \in search.scores
        /\ \A p \in search.scores :
              /\ p[2] <= search.best_score
              /\ p[2] = search.best_score => CellIndex(search.best_move) <= CellIndex(p[1])

\* C15 witness: several candidates share the greatest score and the
\* returned one is not the first empty cell
C15_Witness ==
    /\ found # <<>>
    /\ Cardinality({p \in found[1].search.scores : p[2] = found[1].search.best_score}) > 1
    /\ \E p \in found[1].search.scores :
          /\ p[2] < found[1].search.best_score
          /\ CellIndex(p[1]) < CellIndex(found[1].search.best_move)

\* the search made on the empty board with O to move and the AI playing O
OpeningSearch ==
    /\ found # <<>>
    /\ found[1].before = BoardNew
    /\ found[1].ai = "O"

\* C16: on the empty board, O to move and the AI playing O, the best score
\* over the candidates is exactly 0: no candidate scores above 0 and at
\* least one scores 0.
C16_OpeningScoreIsZero ==
    OpeningSearch =>
        /\ found[1].search.best_score = 0
        /\ \A p \in found[1].search.scores : p[2] <= 0
        /\ \E p \in found[1].search.scores : p[2] = 0

\* C16 witness: the opening search, with a corner, an edge and the centre
\* among its scored candidates
C16_Witness ==
    /\ OpeningSearch
    /\ {0, 1, 4} \subseteq {CellIndex(p[1]) : p \in found[1].search.scores}

\* C17: for every array of nine cells generate_all_equivalent_states
\* returns exactly 8 arrays, which are the images of the input under the 8
\* symmetries of the square, the input among them; rotate_90 applied four
\* times and reflect applied twice each give the input back.
C17_EightImages ==
    /\ states # <<>> =>
          /\ Len(states[1]) = 8
          /\ {states[1][k] : k \in 1..8} = Images(game.cells)
          /\ \E k \in 1..8 : states[1][k] = game.cells
    /\ rotate_90(rotate_90(rotate_90(rotate_90(game.cells)))) = game.cells
    /\ reflect(reflect(game.cells)) = game.cells

\* C17 witness: an array without any symmetry, whose 8 images all differ
C17_Witness ==
    /\ states # <<>>
    /\ Cardinality({states[1][k] : k \in 1..8}) = 8
    /\ Cardinality(Images(game.cells)) = 8
    /\ rotate_90(game.cells) # game.cells
    /\ reflect(game.cells) # game.cells

\* main has ended: the loop was left, no side was picked, or the process
\* was aborted
Terminated == pc \in {"done", "exit", "panicked"}

\* C18: when the human confirms a selected cell eventually on each of their
\* turns, every game ends, the loop body is completed at most 9 times, and
\* every bot turn (its ai_best_move call) returns.
C18_EveryGameEnds ==
    /\ <>Terminated
    /\ [](turns <= 9)
    /\ (pc = "bot") ~> (pc = "turn" /\ found # <<>>)

\* C18 witness: a game left after nine completed turns
C18_Witness ==
    /\ pc = "done"
    /\ turns = 9
    /\ found # <<>>

\* C19: when main's loop is left the outcome is decided (a player or a
\* draw, so "Game ended unexpectedly." is never printed), and no turn of
\* the loop is run on a full board or on a board with a completed triple.
C19_LoopExitIsDecided ==
    /\ pc = "done" => game.winner \in {"Player(X)", "Player(O)", "Draw"}
    /\ pc \in {"input", "bot"} =>
          /\ game.winner = "None"
          /\ \E i \in 0..8 : game.cells[i] = "None"
          /\ ~HoldsTriple(game.cells, "X")
          /\ ~HoldsTriple(game.cells, "O")

\* C19 witness: the loop left on a full board without a triple, after the
\* last turn was run on a board with one empty cell
C19_Witness ==
    /\ pc = "done"
    /\ turns = 9
    /\ game.winner = "Draw"
    /\ ~HoldsTriple(game.cells, "X")
    /\ ~HoldsTriple(game.cells, "O")

\* C20: no play_move overwrites a marker: the cell the human confirms, the
\* cell play_bot_move plays and the cell of every candidate and child move
\* of the search are empty when written; a highlighted cell is always an
\* empty cell, and no cell is highlighted during a bot turn.
C20_NoMarkerOverwritten ==
    /\ game.highlight # <<>> => get_cell(game, game.highlight[1]) = "None"
    /\ pc = "bot" => game.highlight = <<>>
    /\ found # <<>> =>
          /\ found[1].before.highlight = <<>>
          /\ found[1].search.legal
          /\ get_cell(found[1].search.board, found[1].search.best_move) = "None"

\* C20 witness: after a bot turn whose search made many moves, the human
\* has highlighted an empty cell of a board that holds markers of both
C20_Witness ==
    /\ pc = "input"
    /\ game.highlight # <<>>
    /\ get_cell(game, game.highlight[1]) = "None"
    /\ Count(game.cells, "X") > 0
    /\ Count(game.cells, "O") > 0
    /\ found # <<>>
    /\ found[1].search.counter > 1000
    /\ found[1].search.legal

====
